---- MODULE Spec2Model ----
(***************************************************************************)
(* Model of fakenet/diverters/linutil.py: the NFQUEUE binding wrapper      *)
(* (LinuxDiverterNfqueue: start / _threadproc / stop_nonblocking / stop)   *)
(* and the queue number allocator (LinUtilMixin).                          *)
(*                                                                         *)
(* The owner of the bindings is one sequential caller: a call of start()   *)
(* or stop() runs to its return before the owner begins another call.      *)
(* stop_nonblocking() is a single assignment and may be issued at any      *)
(* moment (another context of the owner).  Each binding has its own        *)
(* processing thread, interleaved freely with everything else.             *)
(***************************************************************************)
EXTENDS Integers, Sequences, FiniteSets, TLC

\* ------------------------------------------------------------------ bounds
NBindings == 2          \* number of LinuxDiverterNfqueue objects
ExpiryCap == 2          \* saturation of the timeout-expiry history counter
QnoBits == 2            \* width of a queue number in the model (16 in the source)
MaxN == 3               \* largest n passed to linux_get_next_nfqueue_numbers
MaxStops == 2           \* most stop() calls made on one binding
MaxFmt == 3             \* longest command pattern of a rule template, in tokens
MaxArgs == 2            \* longest argument list of a rule template
MaxIfaces == 2          \* most interfaces named in one redirect request
MaxLines == 2           \* most lines of the queue accounting file

Bindings == 1..NBindings

\* Queue numbers are of type u_int16_t: QNO_MAX = 0xffff = 2^16 - 1
QNO_MAX == 2^QnoBits - 1

\* process exit codes of the iptables command: zero = success
ExitStatuses == {0, 1}

\* outcomes of NetfilterQueue.bind(): success, or one of the two exceptions
\* start() catches
BindOutcomes == {"ok", "OSError", "RuntimeWarning"}

\* outcomes of Thread.start(): success, or RuntimeError
LaunchOutcomes == {"ok", "RuntimeError"}

VARIABLES
    \* --- LinuxDiverterNfqueue fields
    rule_added,     \* self._rule_added
    bound,          \* self._bound
    started,        \* self._started
    stopflag,       \* self._stopflag
    \* --- control
    opc,            \* position of the owner inside start()/stop() of a binding
    tpc,            \* position of the processing thread (self._thread)
    ret,            \* value returned by start(): "true"/"false", "none" until it returns
    \* --- the world outside the process
    installed,      \* the binding's iptables rule is present in the kernel
    kbound,         \* the consumer is registered with the kernel queue
    addStatus,      \* exit status of the rule's add command (-1 while not run)
    bindRes,        \* outcome of NetfilterQueue.bind ("none" if not called)
    launchRes,      \* outcome of Thread.start ("none" if not called)
    calls,          \* how many times each external operation was performed
    \* --- history
    sig,            \* stop_nonblocking seen: "none", "pre" (before start()), "post"
    expiries,       \* timeout expiries of the receive while the stop flag was set
    logged,         \* log records emitted by the binding, per failing step
    remStatus,      \* exit status of the last remove command (-1 while not run)
    stops,          \* number of stop() calls begun on the binding
    \* --- allocator call
    existing_queues,\* result of linux_get_current_nfnlq_bindings()
    n,              \* argument of linux_get_next_nfqueue_numbers
    next_qnos,      \* its result
    apc,            \* "call" before the allocator ran, "ret" after
    \* --- IptCmdTemplate under construction
    fmt,            \* the command pattern, as its whitespace separated tokens
    args,           \* the argument list
    add,            \* the add action
    rem,            \* the remove action
    add_idx,        \* position of the add action among the arguments
    rem_idx,        \* position given for the remove action
    addcmd,         \* self._addcmd, as its tokens (what add() passes to split())
    remcmd,         \* self._remcmd, as its tokens
    ipc,            \* "new" before __init__, then "built" or "TypeError"
    \* --- linux_iptables_redir_nonlocal call
    specified_ifaces,\* its argument
    local_ifaces,   \* result of self._linux_get_ifaces()
    iptables_rules, \* the rules collected for the caller (their add commands)
    ridx,           \* position of the loop in specified_ifaces
    rpc,            \* "call", "loop" or "ret"
    rret,           \* status returned: "true"/"false", "none" before the return
    nat_rules,      \* redirect rules the call has put into the kernel
    radds,          \* add commands the call has executed
    rlog,           \* error records the call has logged
    \* --- linux_get_current_nfnlq_bindings call
    procfs,         \* the accounting file: readable or not, and its lines
    qnos,           \* the list built by the call
    wlog            \* warning records the call has logged

fields == <<rule_added, bound, started, stopflag>>
world == <<installed, kbound, addStatus, bindRes, launchRes, calls>>
hist == <<sig, expiries>>
alloc == <<existing_queues, n, next_qnos, apc>>
trail == <<logged, remStatus, stops>>
template == <<fmt, args, add, rem, add_idx, rem_idx, addcmd, remcmd, ipc>>
redir == <<specified_ifaces, local_ifaces, iptables_rules, ridx, rpc, rret,
           nat_rules, radds, rlog>>
reader == <<procfs, qnos, wlog>>
util == <<template, redir, reader>>
vars == <<rule_added, bound, started, stopflag, opc, tpc, ret,
          installed, kbound, addStatus, bindRes, launchRes, calls,
          sig, expiries, logged, remStatus, stops,
          existing_queues, n, next_qnos, apc,
          fmt, args, add, rem, add_idx, rem_idx, addcmd, remcmd, ipc,
          specified_ifaces, local_ifaces, iptables_rules, ridx, rpc, rret,
          nat_rules, radds, rlog, procfs, qnos, wlog>>

NoLogs == [add |-> 0, bind |-> 0, launch |-> 0, remove |-> 0]

NoCalls == [add |-> 0, bind |-> 0, launch |-> 0, join |-> 0, unbind |-> 0, remove |-> 0]

\* The owner is between calls: no start() or stop() is in progress.
OwnerFree == \A c \in Bindings : opc[c] \in {"idle", "ran", "stopped"}

Alive(b) == tpc[b] \in {"check", "recv", "callback"}

\* a Python bool as it is recorded in ret
BoolStr(x) == IF x THEN "true" ELSE "false"

\* ------------------------------------------------------- LinuxDiverterNfqueue
InitBinding ==
    /\ rule_added = [b \in Bindings |-> FALSE]
    /\ bound = [b \in Bindings |-> FALSE]
    /\ started = [b \in Bindings |-> FALSE]
    /\ stopflag = [b \in Bindings |-> FALSE]
    /\ opc = [b \in Bindings |-> "idle"]
    /\ tpc = [b \in Bindings |-> "none"]
    /\ ret = [b \in Bindings |-> "none"]
    /\ installed = [b \in Bindings |-> FALSE]
    /\ kbound = [b \in Bindings |-> FALSE]
    /\ addStatus = [b \in Bindings |-> -1]
    /\ bindRes = [b \in Bindings |-> "none"]
    /\ launchRes = [b \in Bindings |-> "none"]
    /\ calls = [b \in Bindings |-> NoCalls]
    /\ sig = [b \in Bindings |-> "none"]
    /\ expiries = [b \in Bindings |-> 0]
    /\ logged = [b \in Bindings |-> NoLogs]
    /\ remStatus = [b \in Bindings |-> -1]
    /\ stops = [b \in Bindings |-> 0]

\* variant of StartAdd: _rule_added is set before the exit status is looked at
StartAddMarksFirst(b) ==
    /\ opc[b] = "idle"
    /\ OwnerFree
    /\ \E st \in ExitStatuses :
         /\ addStatus' = [addStatus EXCEPT ![b] = st]
         /\ calls' = [calls EXCEPT ![b].add = @ + 1]
         /\ rule_added' = [rule_added EXCEPT ![b] = TRUE]
         /\ IF st # 0
              THEN /\ ret' = [ret EXCEPT ![b] = "false"]
                   /\ opc' = [opc EXCEPT ![b] = "ran"]
                   /\ UNCHANGED installed
              ELSE /\ installed' = [installed EXCEPT ![b] = TRUE]
                   /\ opc' = [opc EXCEPT ![b] = "bind"]
                   /\ UNCHANGED ret
    /\ UNCHANGED <<bound, started, stopflag, tpc, kbound, bindRes, launchRes>>
    /\ UNCHANGED <<hist, alloc, util, trail>>

\* variant of StartAdd: the "return False" after a failed add is missing
StartAddNoReturn(b) ==
    /\ opc[b] = "idle"
    /\ OwnerFree
    /\ \E st \in ExitStatuses :
         /\ addStatus' = [addStatus EXCEPT ![b] = st]
         /\ calls' = [calls EXCEPT ![b].add = @ + 1]
         /\ opc' = [opc EXCEPT ![b] = "bind"]
         /\ IF st # 0
              THEN UNCHANGED <<rule_added, installed>>
              ELSE /\ installed' = [installed EXCEPT ![b] = TRUE]
                   /\ rule_added' = [rule_added EXCEPT ![b] = TRUE]
    /\ UNCHANGED <<bound, started, stopflag, tpc, ret, kbound, bindRes, launchRes>>
    /\ UNCHANGED <<hist, alloc, util, trail>>

\* start(), rule step: ret = self._rule.add(); if ret != 0: return False;
\* self._rule_added = True
StartAdd(b) ==
    /\ opc[b] = "idle"
    /\ OwnerFree
    /\ \E st \in ExitStatuses :
         /\ addStatus' = [addStatus EXCEPT ![b] = st]
         /\ calls' = [calls EXCEPT ![b].add = @ + 1]
         /\ IF st # 0
              THEN /\ ret' = [ret EXCEPT ![b] = "false"]
                   /\ opc' = [opc EXCEPT ![b] = "ran"]
                   /\ UNCHANGED <<rule_added, installed>>
              ELSE /\ installed' = [installed EXCEPT ![b] = TRUE]
                   /\ rule_added' = [rule_added EXCEPT ![b] = TRUE]
                   /\ opc' = [opc EXCEPT ![b] = "bind"]
                   /\ UNCHANGED ret
    /\ UNCHANGED <<bound, started, stopflag, tpc, kbound, bindRes, launchRes>>
    /\ UNCHANGED <<hist, alloc, util, trail>>

\* variant of StartBind: _bound is set before bind() is called
StartBindMarksFirst(b) ==
    /\ opc[b] = "bind"
    /\ \E res \in BindOutcomes :
         /\ bindRes' = [bindRes EXCEPT ![b] = res]
         /\ calls' = [calls EXCEPT ![b].bind = @ + 1]
         /\ bound' = [bound EXCEPT ![b] = TRUE]
         /\ IF res = "ok"
              THEN /\ kbound' = [kbound EXCEPT ![b] = TRUE]
                   /\ opc' = [opc EXCEPT ![b] = "mkthread"]
                   /\ UNCHANGED <<ret, logged>>
              ELSE /\ ret' = [ret EXCEPT ![b] = "true"]
                   /\ logged' = [logged EXCEPT ![b].bind = @ + 1]
                   /\ opc' = [opc EXCEPT ![b] = "ran"]
                   /\ UNCHANGED kbound
    /\ UNCHANGED <<rule_added, started, stopflag, tpc, installed, addStatus, launchRes>>
    /\ UNCHANGED <<hist, alloc, util, remStatus, stops>>

\* start(), bind step: try: self._nfqueue.bind(...); self._bound = True
\* except OSError / RuntimeWarning: log; if not self._bound: return False
StartBind(b) ==
    /\ opc[b] = "bind"
    /\ \E res \in BindOutcomes :
         /\ bindRes' = [bindRes EXCEPT ![b] = res]
         /\ calls' = [calls EXCEPT ![b].bind = @ + 1]
         /\ IF res = "ok"
              THEN /\ kbound' = [kbound EXCEPT ![b] = TRUE]
                   /\ bound' = [bound EXCEPT ![b] = TRUE]
                   /\ opc' = [opc EXCEPT ![b] = "mkthread"]
                   /\ UNCHANGED <<ret, logged>>
              ELSE /\ ret' = [ret EXCEPT ![b] = BoolStr(bound[b])]
                   /\ logged' = [logged EXCEPT ![b].bind = @ + 1]
                   /\ opc' = [opc EXCEPT ![b] = "ran"]
                   /\ UNCHANGED <<kbound, bound>>
    /\ UNCHANGED <<rule_added, started, stopflag, tpc, installed, addStatus, launchRes>>
    /\ UNCHANGED <<hist, alloc, util, remStatus, stops>>

\* variant of StartMkThread: the stop flag is not reset
StartMkThreadNoReset(b) ==
    /\ opc[b] = "mkthread"
    /\ opc' = [opc EXCEPT ![b] = "launch"]
    /\ UNCHANGED <<rule_added, bound, started, stopflag, tpc, ret>>
    /\ UNCHANGED <<world, hist, alloc, util, trail>>

\* start(): self._sk = socket.fromfd(...); settimeout;
\* self._thread = threading.Thread(...); self._stopflag = False
StartMkThread(b) ==
    /\ opc[b] = "mkthread"
    /\ stopflag' = [stopflag EXCEPT ![b] = FALSE]
    /\ opc' = [opc EXCEPT ![b] = "launch"]
    /\ UNCHANGED <<rule_added, bound, started, tpc, ret>>
    /\ UNCHANGED <<world, hist, alloc, util, trail>>

\* variant of StartLaunch: start() ends with "return True"
StartLaunchReturnsTrue(b) ==
    /\ opc[b] = "launch"
    /\ \E res \in LaunchOutcomes :
         /\ launchRes' = [launchRes EXCEPT ![b] = res]
         /\ calls' = [calls EXCEPT ![b].launch = @ + 1]
         /\ IF res = "ok"
              THEN /\ tpc' = [tpc EXCEPT ![b] = "check"]
                   /\ opc' = [opc EXCEPT ![b] = "mark"]
                   /\ UNCHANGED <<ret, logged>>
              ELSE /\ ret' = [ret EXCEPT ![b] = "true"]
                   /\ logged' = [logged EXCEPT ![b].launch = @ + 1]
                   /\ opc' = [opc EXCEPT ![b] = "ran"]
                   /\ UNCHANGED tpc
    /\ UNCHANGED <<rule_added, bound, started, stopflag>>
    /\ UNCHANGED <<installed, kbound, addStatus, bindRes>>
    /\ UNCHANGED <<hist, alloc, util, remStatus, stops>>

\* start(): try: self._thread.start() ... except RuntimeError: log;
\* on failure falls through to return self._started
StartLaunch(b) ==
    /\ opc[b] = "launch"
    /\ \E res \in LaunchOutcomes :
         /\ launchRes' = [launchRes EXCEPT ![b] = res]
         /\ calls' = [calls EXCEPT ![b].launch = @ + 1]
         /\ IF res = "ok"
              THEN /\ tpc' = [tpc EXCEPT ![b] = "check"]
                   /\ opc' = [opc EXCEPT ![b] = "mark"]
                   /\ UNCHANGED <<ret, logged>>
              ELSE /\ ret' = [ret EXCEPT ![b] = BoolStr(started[b])]
                   /\ logged' = [logged EXCEPT ![b].launch = @ + 1]
                   /\ opc' = [opc EXCEPT ![b] = "ran"]
                   /\ UNCHANGED tpc
    /\ UNCHANGED <<rule_added, bound, started, stopflag>>
    /\ UNCHANGED <<installed, kbound, addStatus, bindRes>>
    /\ UNCHANGED <<hist, alloc, util, remStatus, stops>>

\* variant of StartMark: the stop flag is reset after the thread was started
StartMarkResetsFlag(b) ==
    /\ opc[b] = "mark"
    /\ started' = [started EXCEPT ![b] = TRUE]
    /\ stopflag' = [stopflag EXCEPT ![b] = FALSE]
    /\ ret' = [ret EXCEPT ![b] = "true"]
    /\ opc' = [opc EXCEPT ![b] = "ran"]
    /\ UNCHANGED <<rule_added, bound, tpc>>
    /\ UNCHANGED <<world, hist, alloc, util, trail>>

\* start(): self._started = True; return self._started
StartMark(b) ==
    /\ opc[b] = "mark"
    /\ started' = [started EXCEPT ![b] = TRUE]
    /\ ret' = [ret EXCEPT ![b] = "true"]
    /\ opc' = [opc EXCEPT ![b] = "ran"]
    /\ UNCHANGED <<rule_added, bound, stopflag, tpc>>
    /\ UNCHANGED <<world, hist, alloc, util, trail>>

\* variant of ThreadCheck: the loop condition does not read the stop flag
ThreadCheckIgnoresFlag(b) ==
    /\ tpc[b] = "check"
    /\ tpc' = [tpc EXCEPT ![b] = "recv"]
    /\ UNCHANGED <<fields, opc, ret>>
    /\ UNCHANGED <<world, hist, alloc, util, trail>>

\* _threadproc: while not self._stopflag: enter self._nfqueue.run_socket(self._sk)
ThreadCheck(b) ==
    /\ tpc[b] = "check"
    /\ tpc' = [tpc EXCEPT ![b] = IF stopflag[b] THEN "done" ELSE "recv"]
    /\ UNCHANGED <<fields, opc, ret>>
    /\ UNCHANGED <<world, hist, alloc, util, trail>>

\* run_socket: a packet arrives before the timeout; it is dispatched
\* synchronously to the registered callback.  run_socket() comes back to
\* _threadproc only by raising: the single way from the receive to the
\* while condition is the "except socket.timeout" branch (start()'s
\* docstring: "checks _stopflag every time the netlink socket times out").
RecvPacket(b) ==
    /\ tpc[b] = "recv"
    /\ tpc' = [tpc EXCEPT ![b] = "callback"]
    /\ UNCHANGED <<fields, opc, ret>>
    /\ UNCHANGED <<world, hist, alloc, util, trail>>

\* the callback returns and run_socket blocks in the receive again; the
\* stop flag is not looked at here
CallbackReturn(b) ==
    /\ tpc[b] = "callback"
    /\ tpc' = [tpc EXCEPT ![b] = "recv"]
    /\ UNCHANGED <<fields, opc, ret>>
    /\ UNCHANGED <<world, hist, alloc, util, trail>>

\* variant of RecvTimeout: the timeout is swallowed inside the receive loop
RecvTimeoutNoRecheck(b) ==
    /\ tpc[b] = "recv"
    /\ tpc' = [tpc EXCEPT ![b] = "callback"]
    /\ expiries' = [expiries EXCEPT ![b] =
                      IF stopflag[b] /\ @ < ExpiryCap THEN @ + 1 ELSE @]
    /\ UNCHANGED <<fields, opc, ret, sig>>
    /\ UNCHANGED <<world, alloc, util, trail>>

\* except socket.timeout: pass  -- back to the while condition
RecvTimeout(b) ==
    /\ tpc[b] = "recv"
    /\ tpc' = [tpc EXCEPT ![b] = "check"]
    /\ expiries' = [expiries EXCEPT ![b] =
                      IF stopflag[b] /\ @ < ExpiryCap THEN @ + 1 ELSE @]
    /\ UNCHANGED <<fields, opc, ret, sig>>
    /\ UNCHANGED <<world, alloc, util, trail>>

\* self._stopflag = True
SetStopFlag(b) ==
    /\ stopflag' = [stopflag EXCEPT ![b] = TRUE]
    /\ sig' = [sig EXCEPT ![b] = IF opc[b] = "idle" THEN "pre" ELSE "post"]

\* stop_nonblocking(), called on its own
StopNonblocking(b) ==
    /\ SetStopFlag(b)
    /\ UNCHANGED <<rule_added, bound, started, opc, tpc, ret, expiries>>
    /\ UNCHANGED <<world, alloc, util, trail>>

\* stop(): self.stop_nonblocking()
StopSignal(b) ==
    /\ opc[b] \in {"idle", "ran"}
    /\ OwnerFree
    /\ SetStopFlag(b)
    /\ opc' = [opc EXCEPT ![b] = "join"]
    /\ stops' = [stops EXCEPT ![b] = @ + 1]
    /\ UNCHANGED <<rule_added, bound, started, tpc, ret, expiries>>
    /\ UNCHANGED <<world, alloc, util, logged, remStatus>>

\* stop() called again on a binding whose stop() has returned:
\* self.stop_nonblocking(), then the same three gated steps
StopRepeat(b) ==
    /\ opc[b] = "stopped"
    /\ OwnerFree
    /\ stops[b] < MaxStops
    /\ SetStopFlag(b)
    /\ opc' = [opc EXCEPT ![b] = "join"]
    /\ stops' = [stops EXCEPT ![b] = @ + 1]
    /\ UNCHANGED <<rule_added, bound, started, tpc, ret, expiries>>
    /\ UNCHANGED <<world, alloc, util, logged, remStatus>>

\* variant of StopJoin: the join is gated on _bound
StopJoinGatedOnBound(b) ==
    /\ opc[b] = "join"
    /\ IF bound[b]
         THEN /\ ~Alive(b)
              /\ calls' = [calls EXCEPT ![b].join = @ + 1]
         ELSE UNCHANGED calls
    /\ opc' = [opc EXCEPT ![b] = "unbind"]
    /\ UNCHANGED <<fields, tpc, ret>>
    /\ UNCHANGED <<installed, kbound, addStatus, bindRes, launchRes>>
    /\ UNCHANGED <<hist, alloc, util, trail>>

\* variant of StopJoin: the thread is not waited for
StopJoinNoWait(b) ==
    /\ opc[b] = "join"
    /\ IF started[b]
         THEN calls' = [calls EXCEPT ![b].join = @ + 1]
         ELSE UNCHANGED calls
    /\ opc' = [opc EXCEPT ![b] = "unbind"]
    /\ UNCHANGED <<fields, tpc, ret>>
    /\ UNCHANGED <<installed, kbound, addStatus, bindRes, launchRes>>
    /\ UNCHANGED <<hist, alloc, util, trail>>

\* stop(): if self._started: self._thread.join()
StopJoin(b) ==
    /\ opc[b] = "join"
    /\ IF started[b]
         THEN /\ ~Alive(b)
              /\ calls' = [calls EXCEPT ![b].join = @ + 1]
         ELSE UNCHANGED calls
    /\ opc' = [opc EXCEPT ![b] = "unbind"]
    /\ UNCHANGED <<fields, tpc, ret>>
    /\ UNCHANGED <<installed, kbound, addStatus, bindRes, launchRes>>
    /\ UNCHANGED <<hist, alloc, util, trail>>

\* stop(): if self._bound: self._nfqueue.unbind()
StopUnbind(b) ==
    /\ opc[b] = "unbind"
    /\ IF bound[b]
         THEN /\ kbound' = [kbound EXCEPT ![b] = FALSE]
              /\ calls' = [calls EXCEPT ![b].unbind = @ + 1]
         ELSE UNCHANGED <<kbound, calls>>
    /\ opc' = [opc EXCEPT ![b] = "remove"]
    /\ UNCHANGED <<fields, tpc, ret>>
    /\ UNCHANGED <<installed, addStatus, bindRes, launchRes>>
    /\ UNCHANGED <<hist, alloc, util, trail>>

\* variant of StopRemove: the rule is removed by the first stop() only
StopRemoveOnce(b) ==
    /\ opc[b] = "remove"
    /\ IF rule_added[b] /\ calls[b].remove = 0
         THEN \E st \in ExitStatuses :
                /\ calls' = [calls EXCEPT ![b].remove = @ + 1]
                /\ remStatus' = [remStatus EXCEPT ![b] = st]
                /\ installed' = [installed EXCEPT ![b] = IF st = 0 THEN FALSE ELSE @]
         ELSE UNCHANGED <<installed, calls, remStatus>>
    /\ opc' = [opc EXCEPT ![b] = "stopped"]
    /\ UNCHANGED <<fields, tpc, ret>>
    /\ UNCHANGED <<kbound, addStatus, bindRes, launchRes>>
    /\ UNCHANGED <<hist, alloc, util, logged, stops>>

\* stop(): if self._rule_added: self._rule.remove()  -- exit status discarded
StopRemove(b) ==
    /\ opc[b] = "remove"
    /\ IF rule_added[b]
         THEN \E st \in ExitStatuses :
                /\ calls' = [calls EXCEPT ![b].remove = @ + 1]
                /\ remStatus' = [remStatus EXCEPT ![b] = st]
                /\ installed' = [installed EXCEPT ![b] = IF st = 0 THEN FALSE ELSE @]
         ELSE UNCHANGED <<installed, calls, remStatus>>
    /\ opc' = [opc EXCEPT ![b] = "stopped"]
    /\ UNCHANGED <<fields, tpc, ret>>
    /\ UNCHANGED <<kbound, addStatus, bindRes, launchRes>>
    /\ UNCHANGED <<hist, alloc, util, logged, stops>>

\* ---------------------------------------------------------------- allocator
\* variant of ScanQnos: the range is one number too long
RECURSIVE ScanQnosOffByOne(_, _, _, _)
ScanQnosOffByOne(qno, existing, cnt, acc) ==
    IF qno >= QNO_MAX + 2 THEN acc
    ELSE IF qno \notin existing
           THEN IF Len(acc) + 1 = cnt
                  THEN Append(acc, qno)
                  ELSE ScanQnosOffByOne(qno + 1, existing, cnt, Append(acc, qno))
           ELSE ScanQnosOffByOne(qno + 1, existing, cnt, acc)

\* for qno in xrange(QNO_MAX + 1): if qno not in existing_queues:
\*     next_qnos.append(qno); if len(next_qnos) == n: break
RECURSIVE ScanQnos(_, _, _, _)
ScanQnos(qno, existing, cnt, acc) ==
    IF qno >= QNO_MAX + 1 THEN acc
    ELSE IF qno \notin existing
           THEN IF Len(acc) + 1 = cnt
                  THEN Append(acc, qno)
                  ELSE ScanQnos(qno + 1, existing, cnt, Append(acc, qno))
           ELSE ScanQnos(qno + 1, existing, cnt, acc)

linux_get_next_nfqueue_numbers(existing, cnt) == ScanQnos(0, existing, cnt, <<>>)

\* what the accounting file may list: any subset of the queue numbers, and
\* one number beyond the range
ClaimedSets == SUBSET (0..(QNO_MAX + 1))

InitAlloc ==
    /\ existing_queues \in ClaimedSets
    /\ n \in 0..MaxN
    /\ next_qnos = <<>>
    /\ apc = "call"

AllocCall ==
    /\ apc = "call"
    /\ next_qnos' = linux_get_next_nfqueue_numbers(existing_queues, n)
    /\ apc' = "ret"
    /\ UNCHANGED <<existing_queues, n>>
    /\ UNCHANGED <<fields, opc, tpc, ret, world, hist, util, trail>>

\* ------------------------------------------------------------ IptCmdTemplate
\* tokens a command pattern is made of: a literal word and the two
\* conversions the patterns of this file use
FmtTokens == {"iptables", "%s", "%d"}

\* argument values: a word and a number (the queue number)
ArgValues == {"INPUT", "5"}

\* action tokens (-I / -A to add, -D to remove)
ActionTokens == {"-I", "-D"}

IsNumber(v) == v = "5"

SeqsUpTo(S, k) == UNION {[1..m -> S] : m \in 0..k}

\* Python slice bound: negative counts from the end, both ends clamp
SliceIdx(i, len) ==
    IF i < 0 THEN (IF i + len < 0 THEN 0 ELSE i + len)
    ELSE IF i > len THEN len ELSE i

\* a[0:i]
Prefix(a, i) == SubSeq(a, 1, SliceIdx(i, Len(a)))

\* a[i:]
Suffix(a, i) == SubSeq(a, SliceIdx(i, Len(a)) + 1, Len(a))

\* args[0:add_idx] + [add] + args[add_idx:]
AddArgs(a, act, ai) == Prefix(a, ai) \o <<act>> \o Suffix(a, ai)

\* variant of RemArgs: the prefix is cut at rem_idx too
RemArgsOwnPrefix(a, act, ai, ri) == Prefix(a, ri) \o <<act>> \o Suffix(a, ri)

\* args[0:add_idx] + [rem] + args[rem_idx:]
RemArgs(a, act, ai, ri) == Prefix(a, ai) \o <<act>> \o Suffix(a, ri)

IsConversion(tok) == tok \in {"%s", "%d"}

\* fmt % tuple(vals): every conversion takes the next value; too few or too
\* many values, or a non-number for %d, raise TypeError
RECURSIVE Format(_, _)
Format(f, vals) ==
    IF f = <<>>
      THEN [ok |-> vals = <<>>, toks |-> <<>>]
      ELSE IF IsConversion(Head(f))
             THEN IF vals = <<>> \/ (Head(f) = "%d" /\ ~IsNumber(Head(vals)))
                    THEN [ok |-> FALSE, toks |-> <<>>]
                    ELSE LET r == Format(Tail(f), Tail(vals))
                         IN [ok |-> r.ok, toks |-> <<Head(vals)>> \o r.toks]
             ELSE LET r == Format(Tail(f), vals)
                  IN [ok |-> r.ok, toks |-> <<Head(f)>> \o r.toks]

InitTemplate ==
    /\ fmt \in SeqsUpTo(FmtTokens, MaxFmt) \ {<<>>}
    /\ args \in SeqsUpTo(ArgValues, MaxArgs)
    /\ add \in ActionTokens
    /\ rem \in ActionTokens
    /\ add_idx \in -1..(MaxArgs + 1)
    /\ rem_idx \in -1..(MaxArgs + 1)
    /\ addcmd = <<>>
    /\ remcmd = <<>>
    /\ ipc = "new"

\* no template is being built
NoTemplate ==
    /\ fmt = <<"iptables">>
    /\ args = <<>>
    /\ add = "-I"
    /\ rem = "-D"
    /\ add_idx = 0
    /\ rem_idx = 0
    /\ addcmd = <<>>
    /\ remcmd = <<>>
    /\ ipc = "new"

\* IptCmdTemplate.__init__
TemplateNew ==
    /\ ipc = "new"
    /\ LET a == Format(fmt, AddArgs(args, add, add_idx))
           r == Format(fmt, RemArgs(args, rem, add_idx, rem_idx))
       IN IF a.ok /\ r.ok
            THEN /\ addcmd' = a.toks
                 /\ remcmd' = r.toks
                 /\ ipc' = "built"
            ELSE /\ ipc' = "TypeError"
                 /\ UNCHANGED <<addcmd, remcmd>>
    /\ UNCHANGED <<fmt, args, add, rem, add_idx, rem_idx>>
    /\ UNCHANGED <<fields, opc, tpc, ret, world, hist, alloc, trail, redir, reader>>

\* ------------------------------------------- linux_iptables_redir_nonlocal
IfaceNames == {"eth0", "eth1", "any", "*"}

\* all_iface_aliases = ['any', '*']
all_iface_aliases == {"any", "*"}

\* acceptable_ifaces = local_ifaces + all_iface_aliases
acceptable_ifaces == local_ifaces \cup all_iface_aliases

\* the add command of IptCmdTemplate(fmt, args) built for one interface:
\* the -i switch and its argument are left out for "any" and "*"
RuleAddCmd(iface) ==
    IF iface \in all_iface_aliases
      THEN Format(<<"iptables", "-t", "nat", "%s", "PREROUTING",
                    "-j", "REDIRECT">>,
                  AddArgs(<<>>, "-I", 0)).toks
      ELSE Format(<<"iptables", "-t", "nat", "%s", "PREROUTING",
                    "-i", "%s", "-j", "REDIRECT">>,
                  AddArgs(<<iface>>, "-I", 0)).toks

UnknownIfaces ==
    {i \in 1..Len(specified_ifaces) : specified_ifaces[i] \notin acceptable_ifaces}

InitRedir ==
    /\ specified_ifaces \in SeqsUpTo(IfaceNames, MaxIfaces)
    /\ local_ifaces \in SUBSET {"eth0", "eth1"}
    /\ iptables_rules = <<>>
    /\ ridx = 1
    /\ rpc = "call"
    /\ rret = "none"
    /\ nat_rules = <<>>
    /\ radds = 0
    /\ rlog = 0

\* no redirect request is being served
NoRedir ==
    /\ specified_ifaces = <<>>
    /\ local_ifaces = {}
    /\ iptables_rules = <<>>
    /\ ridx = 1
    /\ rpc = "call"
    /\ rret = "none"
    /\ nat_rules = <<>>
    /\ radds = 0
    /\ rlog = 0

\* variant of RedirValidate: only the first interface is looked up
RedirValidateFirstOnly ==
    /\ rpc = "call"
    /\ IF 1 \in UnknownIfaces
         THEN /\ rlog' = rlog + 1
              /\ rret' = "false"
              /\ rpc' = "ret"
         ELSE /\ rpc' = "loop"
              /\ UNCHANGED <<rlog, rret>>
    /\ UNCHANGED <<specified_ifaces, local_ifaces, iptables_rules, ridx, nat_rules, radds>>
    /\ UNCHANGED <<fields, opc, tpc, ret, world, hist, alloc, trail, template, reader>>

\* if not set(specified_ifaces).issubset(acceptable_ifaces): log every
\* interface that is not acceptable; return (False, [])
RedirValidate ==
    /\ rpc = "call"
    /\ IF UnknownIfaces # {}
         THEN /\ rlog' = rlog + Cardinality(UnknownIfaces)
              /\ rret' = "false"
              /\ rpc' = "ret"
         ELSE /\ rpc' = "loop"
              /\ UNCHANGED <<rlog, rret>>
    /\ UNCHANGED <<specified_ifaces, local_ifaces, iptables_rules, ridx, nat_rules, radds>>
    /\ UNCHANGED <<fields, opc, tpc, ret, world, hist, alloc, trail, template, reader>>

\* variant of RedirAdd: the rule is appended before the status is tested
RedirAddAppendsFirst ==
    /\ rpc = "loop"
    /\ ridx <= Len(specified_ifaces)
    /\ \E st \in ExitStatuses :
         /\ radds' = radds + 1
         /\ iptables_rules' = Append(iptables_rules, RuleAddCmd(specified_ifaces[ridx]))
         /\ IF st # 0
              THEN /\ rlog' = rlog + 1
                   /\ rret' = "false"
                   /\ rpc' = "ret"
                   /\ UNCHANGED <<nat_rules, ridx>>
              ELSE /\ nat_rules' = Append(nat_rules, RuleAddCmd(specified_ifaces[ridx]))
                   /\ ridx' = ridx + 1
                   /\ UNCHANGED <<rlog, rret, rpc>>
    /\ UNCHANGED <<specified_ifaces, local_ifaces>>
    /\ UNCHANGED <<fields, opc, tpc, ret, world, hist, alloc, trail, template, reader>>

\* one turn of "for iface in specified_ifaces": rule = IptCmdTemplate(...);
\* ret = rule.add(); if ret != 0: log, return (False, iptables_rules);
\* iptables_rules.append(rule)
RedirAdd ==
    /\ rpc = "loop"
    /\ ridx <= Len(specified_ifaces)
    /\ \E st \in ExitStatuses :
         /\ radds' = radds + 1
         /\ IF st # 0
              THEN /\ rlog' = rlog + 1
                   /\ rret' = "false"
                   /\ rpc' = "ret"
                   /\ UNCHANGED <<iptables_rules, nat_rules, ridx>>
              ELSE /\ nat_rules' = Append(nat_rules, RuleAddCmd(specified_ifaces[ridx]))
                   /\ iptables_rules' = Append(iptables_rules, RuleAddCmd(specified_ifaces[ridx]))
                   /\ ridx' = ridx + 1
                   /\ UNCHANGED <<rlog, rret, rpc>>
    /\ UNCHANGED <<specified_ifaces, local_ifaces>>
    /\ UNCHANGED <<fields, opc, tpc, ret, world, hist, alloc, trail, template, reader>>

\* the loop is over: return (True, iptables_rules)
RedirDone ==
    /\ rpc = "loop"
    /\ ridx > Len(specified_ifaces)
    /\ rret' = "true"
    /\ rpc' = "ret"
    /\ UNCHANGED <<specified_ifaces, local_ifaces, iptables_rules, ridx, nat_rules, radds, rlog>>
    /\ UNCHANGED <<fields, opc, tpc, ret, world, hist, alloc, trail, template, reader>>

\* ---------------------------------------- linux_get_current_nfnlq_bindings
\* a line of /proc/net/netfilter/nfnetlink_queue after strip() and split():
\* its numeric fields, none for a blank line
LineKinds == {<<>>, <<0>>, <<1>>, <<2, 0>>}

ProcFiles ==
    {[readable |-> FALSE, lines |-> <<>>]}
        \cup {[readable |-> TRUE, lines |-> l] : l \in SeqsUpTo(LineKinds, MaxLines)}

\* for line in lines: line = line.strip(); if line:
\*     qnos.append(int(line.split()[0], 10))
RECURSIVE ParseLines(_)
ParseLines(lines) ==
    IF lines = <<>> THEN <<>>
    ELSE IF Head(lines) # <<>>
           THEN <<Head(lines)[1]>> \o ParseLines(Tail(lines))
           ELSE ParseLines(Tail(lines))

Elems(q) == {q[i] : i \in 1..Len(q)}

InitReader ==
    /\ procfs \in ProcFiles
    /\ qnos = <<>>
    /\ wlog = 0

\* the accounting file is not being read
NoReader ==
    /\ procfs = [readable |-> FALSE, lines |-> <<>>]
    /\ qnos = <<>>
    /\ wlog = 0

\* linux_get_current_nfnlq_bindings(), as called at the top of
\* linux_get_next_nfqueue_numbers: IOError -> one warning, empty list
ReadBindings ==
    /\ apc = "read"
    /\ IF procfs.readable
         THEN /\ qnos' = ParseLines(procfs.lines)
              /\ UNCHANGED wlog
         ELSE /\ qnos' = <<>>
              /\ wlog' = wlog + 1
    /\ existing_queues' = Elems(qnos')
    /\ apc' = "call"
    /\ UNCHANGED <<procfs, n, next_qnos>>
    /\ UNCHANGED <<fields, opc, tpc, ret, world, hist, trail, template, redir>>

\* ----------------------------------------------------------- specifications
Init ==
    /\ InitBinding
    /\ existing_queues = {}
    /\ n = 0
    /\ next_qnos = <<>>
    /\ apc = "call"
    /\ NoTemplate
    /\ NoRedir
    /\ NoReader

ThreadStep(b) ==
    \/ ThreadCheck(b)
    \/ RecvPacket(b)
    \/ CallbackReturn(b)
    \/ RecvTimeout(b)

Next ==
    \E b \in Bindings :
        \/ StartAdd(b)
        \/ StartBind(b)
        \/ StartMkThread(b)
        \/ StartLaunch(b)
        \/ StartMark(b)
        \/ ThreadCheck(b)
        \/ RecvPacket(b)
        \/ CallbackReturn(b)
        \/ RecvTimeout(b)
        \/ StopNonblocking(b)
        \/ StopSignal(b)
        \/ StopJoin(b)
        \/ StopUnbind(b)
        \/ StopRemove(b)

Spec == Init /\ [][Next]_vars

AllocInit == InitBinding /\ InitAlloc /\ NoTemplate /\ NoRedir /\ NoReader

NoAlloc ==
    /\ existing_queues = {}
    /\ n = 0
    /\ next_qnos = <<>>
    /\ apc = "call"

\* the binding's life with stop() called more than once
RepeatNext == Next \/ \E b \in Bindings : StopRepeat(b)

RepeatSpec == Init /\ [][RepeatNext]_vars

TemplateInit == InitBinding /\ NoAlloc /\ InitTemplate /\ NoRedir /\ NoReader

TemplateNext == TemplateNew

TemplateSpec == TemplateInit /\ [][TemplateNext]_vars

RedirInit == InitBinding /\ NoAlloc /\ NoTemplate /\ InitRedir /\ NoReader

RedirNext == RedirValidate \/ RedirAdd \/ RedirDone

RedirSpec == RedirInit /\ [][RedirNext]_vars

\* linux_get_next_nfqueue_numbers(n) from its first line: the accounting
\* file is read, then the range is scanned
ReadInit ==
    /\ InitBinding
    /\ NoTemplate
    /\ NoRedir
    /\ InitReader
    /\ existing_queues = {}
    /\ n \in 0..MaxN
    /\ next_qnos = <<>>
    /\ apc = "read"

ReadNext == ReadBindings \/ AllocCall

ReadSpec == ReadInit /\ [][ReadNext]_vars

AllocNext == AllocCall

AllocSpec == AllocInit /\ [][AllocNext]_vars

\* The scheduler runs every live thread, and a call of start() or stop()
\* that has begun goes on (join() returns once the thread is dead).  Whether
\* a receive ends with a packet or with a timeout is up to the network.
OwnerStep(b) ==
    \/ StartBind(b)
    \/ StartMkThread(b)
    \/ StartLaunch(b)
    \/ StartMark(b)
    \/ StopJoin(b)
    \/ StopUnbind(b)
    \/ StopRemove(b)

FairSpec ==
    /\ Spec
    /\ \A b \in Bindings : WF_vars(ThreadStep(b))
    /\ \A b \in Bindings : WF_vars(OwnerStep(b))

\* ------------------------------------------------------------------ claims

\* C1: start() returns true only if the rule add exited 0, the consumer is
\* bound and the thread was started; if any of the three steps failed it
\* returns false.
StartTrueOnlyIfAllSucceeded ==
    \A b \in Bindings :
        /\ ret[b] = "true" =>
              /\ addStatus[b] = 0 /\ rule_added[b]
              /\ bindRes[b] = "ok" /\ bound[b]
              /\ launchRes[b] = "ok" /\ started[b] /\ tpc[b] # "none"
        /\ (/\ ret[b] # "none"
            /\ \/ addStatus[b] # 0
               \/ bindRes[b] # "ok"
               \/ launchRes[b] # "ok") => ret[b] = "false"

StartReturnedBoth ==
    \E b, c \in Bindings :
        /\ ret[b] = "true" /\ started[b]
        /\ ret[c] = "false" /\ launchRes[c] = "RuntimeError"

\* C2: after start() and then one stop(), when stop() has returned the
\* thread has exited, the consumer is unbound and the rule is no longer
\* installed, whatever the external commands returned.
TeardownLeavesNothing ==
    \A b \in Bindings :
        (opc[b] = "stopped" /\ ret[b] # "none") =>
            /\ ~Alive(b)
            /\ ~kbound[b]
            /\ ~installed[b]

\* C3: the consumer is never unbound while the processing thread is alive;
\* the unbind happens only after the thread has exited and been joined.
NoUnbindWhileThreadAlive ==
    \A b \in Bindings :
        /\ Alive(b) => kbound[b]
        /\ calls[b].unbind > 0 =>
              /\ ~Alive(b)
              /\ started[b] => calls[b].join = 1

UnboundAfterJoin ==
    \E b \in Bindings :
        started[b] /\ calls[b].join = 1 /\ calls[b].unbind = 1 /\ ~kbound[b]

\* C4 (as claimed): once the stop flag is set on a RUNNING binding the
\* thread exits, whatever packets arrive in the meantime.
StopHonouredWhateverArrives ==
    \A b \in Bindings :
        (started[b] /\ stopflag[b]) ~> (tpc[b] = "done")

\* C4 (amended): once the stop flag is set on a RUNNING binding the thread
\* exits, unless packets keep arriving before the receive's timeout expires
\* (the callback is entered again and again): the flag is read only after a
\* timeout expiry.
StopHonouredAtTimeoutExpiry ==
    \A b \in Bindings :
        \/ []<>(tpc[b] = "callback")
        \/ (started[b] /\ stopflag[b]) ~> (tpc[b] = "done")

ExitedAtTimeoutExpiry ==
    \E b \in Bindings :
        started[b] /\ stopflag[b] /\ expiries[b] = 1 /\ tpc[b] = "done"

\* C5: once stop_nonblocking() has been called on every one of the N fully
\* started bindings, each thread exits at its own first timeout expiry (it
\* never waits for a second one), wherever the owner is in its joins.
AllSignalled == \A b \in Bindings : ret[b] = "true" /\ stopflag[b]

RuleAddFailureLeavesNothing ==
    \A b \in Bindings :
        addStatus[b] > 0 =>
            /\ ret[b] = "false"
            /\ ~rule_added[b] /\ ~bound[b] /\ ~started[b]
            /\ calls[b].bind = 0 /\ calls[b].launch = 0
            /\ calls[b].join = 0 /\ calls[b].unbind = 0 /\ calls[b].remove = 0
            /\ tpc[b] = "none" /\ ~kbound[b] /\ ~installed[b]
            /\ opc[b] \in {"ran", "join", "unbind", "remove", "stopped"}
            /\ opc[b] = "join" => ENABLED StopJoin(b)

StoppedAfterFailedAdd ==
    \E b \in Bindings : addStatus[b] > 0 /\ opc[b] = "stopped"

\* C7: if the bind fails after the rule was added, start() returns false
\* with rule-added true, bound and started false, and does not remove the
\* rule; a later stop() runs the remove command exactly once and attempts
\* neither an unbind nor a join.
BindFailureKeepsRuleUntilStop ==
    \A b \in Bindings :
        bindRes[b] \in {"OSError", "RuntimeWarning"} =>
            /\ ret[b] = "false"
            /\ rule_added[b] /\ ~bound[b] /\ ~started[b]
            /\ calls[b].launch = 0 /\ calls[b].join = 0 /\ calls[b].unbind = 0
            /\ opc[b] \in {"ran", "join", "unbind", "remove"} =>
                  calls[b].remove = 0 /\ installed[b]
            /\ opc[b] = "stopped" => calls[b].remove = 1

StoppedAfterFailedBind ==
    \E b \in Bindings :
        bindRes[b] = "RuntimeWarning" /\ opc[b] = "stopped" /\ calls[b].remove = 1

\* C8: stop_nonblocking() before start() only sets the flag: nothing
\* external is done, and a later start() launches a thread that runs as if
\* the call had never been made (the flag is clear, the thread does not exit).
EarlyStopNonblockingIsInert ==
    \A b \in Bindings :
        sig[b] = "pre" =>
            /\ opc[b] = "idle" =>
                  /\ calls[b] = NoCalls /\ tpc[b] = "none" /\ ret[b] = "none"
                  /\ ~rule_added[b] /\ ~bound[b] /\ ~started[b]
                  /\ ~installed[b] /\ ~kbound[b]
            /\ tpc[b] # "none" =>
                  /\ ~stopflag[b]
                  /\ Alive(b)
                  /\ expiries[b] = 0

ThreadRunsAfterEarlyStop ==
    \E b \in Bindings : sig[b] = "pre" /\ ret[b] = "true" /\ tpc[b] = "callback"

\* C9: linux_get_next_nfqueue_numbers(n) returns only numbers of the range
\* 0..QNO_MAX that are not in the claimed set it observed.
NeverReturnsClaimed ==
    apc = "ret" =>
        \A i \in 1..Len(next_qnos) :
            /\ next_qnos[i] \in 0..QNO_MAX
            /\ next_qnos[i] \notin existing_queues

SkippedClaimedNumber ==
    /\ apc = "ret"
    /\ Len(next_qnos) > 0
    /\ \E q \in existing_queues : q < next_qnos[Len(next_qnos)]

\* C10: for every n >= 0 the result has at most n items, strictly ascending,
\* is exactly the smallest free numbers of 0..QNO_MAX, and is shorter than n
\* only when the free numbers are exhausted.
FreeQnos == (0..QNO_MAX) \ existing_queues

FirstFreeAtMostN ==
    apc = "ret" =>
        /\ Len(next_qnos) <= n
        /\ \A i \in 1..(Len(next_qnos) - 1) : next_qnos[i] < next_qnos[i + 1]
        /\ \A i \in 1..Len(next_qnos) : next_qnos[i] \in FreeQnos
        /\ \A q \in FreeQnos :
              (\E i \in 1..Len(next_qnos) : q < next_qnos[i]) =>
                  \E j \in 1..Len(next_qnos) : next_qnos[j] = q
        /\ Len(next_qnos) < n => Len(next_qnos) = Cardinality(FreeQnos)

\* C12: for every template the constructor accepts, gen_add_cmd() and
\* gen_remove_cmd() have the same number of tokens and differ only in the
\* action token, at one position of the pattern.
AddRemoveDifferOnlyInAction ==
    ipc = "built" =>
        /\ Len(addcmd) = Len(remcmd)
        /\ Len(addcmd) = Len(fmt)
        /\ \E pos \in 1..Len(fmt) :
              /\ fmt[pos] = "%s"
              /\ addcmd[pos] = add
              /\ remcmd[pos] = rem
              /\ \A i \in 1..Len(fmt) : i # pos => addcmd[i] = remcmd[i]

BuiltWithDistinctIndexes ==
    /\ ipc = "built"
    /\ add_idx # rem_idx
    /\ add # rem
    /\ Len(args) = MaxArgs

\* C13 (as claimed): a repeated stop() performs no join, no unbind and no
\* remove command: over any sequence of stop() calls each resource is
\* released once.
RepeatedStopIsNoOp ==
    \A b \in Bindings :
        /\ calls[b].join <= 1
        /\ calls[b].unbind <= 1
        /\ calls[b].remove <= 1

\* C13 (amended): the three booleans are never cleared, so every stop()
\* call performs again each teardown step whose boolean is true.
EveryStopRepeatsTeardown ==
    \A b \in Bindings :
        opc[b] = "stopped" =>
            /\ calls[b].join = (IF started[b] THEN stops[b] ELSE 0)
            /\ calls[b].unbind = (IF bound[b] THEN stops[b] ELSE 0)
            /\ calls[b].remove = (IF rule_added[b] THEN stops[b] ELSE 0)

StoppedTwice ==
    \E b \in Bindings :
        /\ opc[b] = "stopped" /\ stops[b] = 2
        /\ calls[b].join = 2 /\ calls[b].unbind = 2 /\ calls[b].remove = 2

\* C14: if the thread launch fails after rule add and bind succeeded,
\* start() returns false with rule-added and bound true, started false; a
\* later stop() joins nothing, unbinds once and then removes the rule once.
LaunchFailureUnwindsBindAndRule ==
    \A b \in Bindings :
        launchRes[b] = "RuntimeError" =>
            /\ ret[b] = "false"
            /\ rule_added[b] /\ bound[b] /\ ~started[b]
            /\ tpc[b] = "none"
            /\ calls[b].join = 0
            /\ calls[b].remove <= calls[b].unbind
            /\ opc[b] \in {"ran", "join", "unbind"} =>
                  calls[b].unbind = 0 /\ calls[b].remove = 0 /\ kbound[b]
            /\ opc[b] = "remove" => calls[b].unbind = 1 /\ calls[b].remove = 0
            /\ opc[b] = "stopped" =>
                  calls[b].unbind = 1 /\ calls[b].remove = 1 /\ ~kbound[b]

StoppedAfterFailedLaunch ==
    \E b \in Bindings :
        launchRes[b] = "RuntimeError" /\ opc[b] = "stopped" /\ calls[b].unbind = 1

\* C15: started implies bound and bound implies rule-added in every state,
\* and no step sets a later boolean while an earlier one is false.
BooleansSetInOrder ==
    /\ [](\A b \in Bindings :
            /\ started[b] => bound[b]
            /\ bound[b] => rule_added[b])
    /\ [][\A b \in Bindings :
            /\ (~bound[b] /\ bound'[b]) => rule_added[b]
            /\ (~started[b] /\ started'[b]) => bound[b]]_vars

AllThreeSet ==
    \E b \in Bindings : rule_added[b] /\ bound[b] /\ started[b]

\* C18: every failure path emits exactly one log record: a failed rule add,
\* a failed bind, a failed thread start and a failed rule removal each leave
\* one record of the binding.
EveryFailureLoggedOnce ==
    \A b \in Bindings :
        /\ addStatus[b] > 0 => logged[b].add = 1
        /\ bindRes[b] \in {"OSError", "RuntimeWarning"} => logged[b].bind = 1
        /\ launchRes[b] = "RuntimeError" => logged[b].launch = 1
        /\ remStatus[b] > 0 => logged[b].remove = 1

\* C19: a non-zero status of the remove command run by stop() is observed
\* and reported as a failure.
RemoveFailureReported ==
    \A b \in Bindings :
        (opc[b] = "stopped" /\ calls[b].remove > 0 /\ remStatus[b] # 0) =>
            logged[b].remove > 0

\* C20 (as claimed): a stop_nonblocking() made at any point after start()
\* has begun is never lost: the thread, once started, finds the flag set.
StopRequestNeverLost ==
    \A b \in Bindings :
        (sig[b] = "post" /\ Alive(b)) => stopflag[b]

\* C20 (amended): a stop request is kept once start() is past its reset of
\* the flag: from then on a set flag stays set, and a thread that evaluates
\* its loop condition with the flag set exits instead of receiving again.
PastReset(b) == opc[b] \notin {"idle", "bind", "mkthread"}

StopRequestKeptAfterReset ==
    [][\A b \in Bindings :
          (stopflag[b] /\ PastReset(b)) =>
              /\ stopflag'[b]
              /\ tpc[b] = "check" => tpc'[b] \in {"check", "done"}]_vars

ExitedWithoutStopCall ==
    \E b \in Bindings :
        /\ sig[b] = "post" /\ stops[b] = 0
        /\ ret[b] = "true" /\ tpc[b] = "done"

\* C11: if any specified interface is neither local nor an alias, the call
\* returns (False, []) and has executed no add command, not even for the
\* valid interfaces that come before the unknown one.
RedirValidatesBeforeActing ==
    (rpc = "ret" /\ UnknownIfaces # {}) =>
        /\ rret = "false"
        /\ iptables_rules = <<>>
        /\ radds = 0
        /\ nat_rules = <<>>

RejectedAfterValidIface ==
    /\ rpc = "ret"
    /\ Len(specified_ifaces) = 2
    /\ 1 \notin UnknownIfaces
    /\ 2 \in UnknownIfaces

\* C16: when an add command fails the call stops at that interface and
\* returns (False, rules) with exactly the rules added so far, in interface
\* order; at every return the list is what the call installed, and on
\* success it holds one rule per specified interface.
RulesOf(k) == [i \in 1..k |-> RuleAddCmd(specified_ifaces[i])]

RedirReturnsWhatItInstalled ==
    rpc = "ret" =>
        /\ iptables_rules = nat_rules
        /\ rret = "true" =>
              /\ iptables_rules = RulesOf(Len(specified_ifaces))
              /\ radds = Len(specified_ifaces)
        /\ (rret = "false" /\ UnknownIfaces = {}) =>
              /\ radds = Len(iptables_rules) + 1
              /\ radds <= Len(specified_ifaces)
              /\ iptables_rules = RulesOf(radds - 1)

FailedAfterOneRule ==
    /\ rpc = "ret"
    /\ rret = "false"
    /\ Len(iptables_rules) = 1
    /\ Len(specified_ifaces) = 2

\* C17: an unreadable accounting file gives one warning and an empty list,
\* so that the n numbers returned are 0, 1, ..., n-1; a readable one gives
\* exactly the first field of every non-blank line.
FirstFields ==
    LET nb == SelectSeq(procfs.lines, LAMBDA l : l # <<>>)
    IN [i \in 1..Len(nb) |-> nb[i][1]]

UnreadableMeansNoneClaimed ==
    /\ apc \in {"call", "ret"} =>
          IF procfs.readable
            THEN qnos = FirstFields /\ wlog = 0
            ELSE qnos = <<>> /\ wlog = 1
    /\ (apc = "ret" /\ ~procfs.readable) => next_qnos = [i \in 1..n |-> i - 1]

====
